---- MODULE Spec2Model ----
(***************************************************************************)
(* Model of LargeFileProcessor (src/processing/file_processor.py): the     *)
(* file-ingestion pipeline with its size-based strategy choice, the        *)
(* distributed (Dask) reader with its fallback, the chunked reader loop    *)
(* with its progress callback and counters, and the text normaliser.       *)
(*                                                                         *)
(* A file is a sequence of data rows under the header row                   *)
(* 'created_at,text'.  A row is a sequence of fields; a field is its text  *)
(* (a sequence of one-character strings) and whether pd.to_datetime        *)
(* accepts that text.  The pandas parser takes the extra leading fields of *)
(* the first data row as index columns; it raises on a row with more       *)
(* fields than the widest first row of the chunks read so far, unless the  *)
(* row is itself the first of its chunk; a row with fewer fields is filled *)
(* with missing values.  The byte size of a file is an attribute drawn     *)
(* independently of its rows.                                              *)
(***************************************************************************)
EXTENDS Integers, Sequences, FiniteSets, TLC

\* ------------------------------------------------------------------ bounds
MaxRows == 3
MaxChunkArg == 2
MaxCalls == 2
MaxLen == 4
MaxColRows == 3
MaxCustom == 1

\* ------------------------------------------------------- program constants
CHUNK_SIZE == 10000
SAMPLE_ROWS == 1000
DASK_THRESHOLD_MB == 100
BYTES_PER_MB == 1048576
MIN_RECOMMENDED == 1000
ROWS_DIVISOR == 100
URGENT_ABOVE == 5
FRUSTRATED_ABOVE == 3
TEMPLATES_PER_GROUP == 3

Min(a, b) == IF a < b THEN a ELSE b

Max(a, b) == IF a > b THEN a ELSE b

\* ---------------------------------------------------------- text normaliser
Alphabet == {"@", "a", "_", " ", "."}

\* \w of the regular expression r'@\w+'
IsWord(c) == c \in {"a", "_"}

\* what str.strip() removes
IsSpace(c) == c = " "

\* the greedy \w+ : the rest of the text after the longest run of word
\* characters at its start
RECURSIVE DropWord(_)
DropWordOne(s) == IF s # <<>> THEN Tail(s) ELSE s
DropWord(s) ==
    IF s # <<>> /\ IsWord(Head(s)) THEN DropWord(Tail(s)) ELSE s

\* .str.replace(r'@\w+', '', regex=True): leftmost non-overlapping matches
RECURSIVE RemoveMentions(_)
RemoveMentions(s) ==
    IF s = <<>> THEN <<>>
    ELSE IF Head(s) = "@" /\ Len(s) >= 2 /\ IsWord(s[2])
         THEN RemoveMentions(DropWord(Tail(s)))
         ELSE <<Head(s)>> \o RemoveMentions(Tail(s))

RECURSIVE LStrip(_)
LStrip(s) == IF s # <<>> /\ IsSpace(Head(s)) THEN LStrip(Tail(s)) ELSE s

RECURSIVE RStrip(_)
RStrip(s) ==
    IF s # <<>> /\ IsSpace(s[Len(s)]) THEN RStrip(SubSeq(s, 1, Len(s) - 1))
    ELSE s

\* .str.strip()
StripLeftOnly(s) == LStrip(s)
Strip(s) == LStrip(RStrip(s))

\* chunk['text'].str.replace(r'@\w+', '', regex=True).str.strip()
Normalize(s) == Strip(RemoveMentions(s))

RECURSIVE TextsOfLen(_)
TextsOfLen(n) ==
    IF n = 0 THEN {<<>>}
    ELSE {<<c>> \o t : c \in Alphabet, t \in TextsOfLen(n - 1)}

Texts == UNION {TextsOfLen(n) : n \in 0..MaxLen}

\* ------------------------------------------------------------------- files
Text1 == <<"@", "a", " ", "a">>
Text2 == <<" ", "a", ".">>

\* a field of a data row: whether pd.to_datetime accepts it, and its text
Field(d, t) == [date |-> d, text |-> t]

DateField == Field(TRUE, <<"1">>)

\* the rows '1,@a a' (a date and a text), '1,' (a date and an empty text),
\* 'a, a.' (created_at is not a date), 'a,1, a.' (one field more than the
\* header has, in front) and '1, a.,a' (one field more, at the end)
RowValues ==
    { <<DateField, Field(FALSE, Text1)>>,
      <<DateField, Field(FALSE, <<>>)>>,
      <<Field(FALSE, <<"a">>), Field(FALSE, Text2)>>,
      <<Field(FALSE, <<"a">>), DateField, Field(FALSE, Text2)>>,
      <<DateField, Field(FALSE, Text2), Field(FALSE, <<"a">>)>> }

Files == UNION {[1..n -> RowValues] : n \in 0..MaxRows}

ThresholdBytes == DASK_THRESHOLD_MB * BYTES_PER_MB

Sizes == {ThresholdBytes, ThresholdBytes + 1}

\* the columns of the input file that the code names
InputColumns == {"created_at", "text"}

OutputColumns == InputColumns \cup {"clean_text"}

NoTable == [columns |-> {}, rows |-> <<>>]

\* ------------------------------------------------------- cells of a column
\* a cell of a column: a string, or the missing value NaN
NaN == [null |-> TRUE, text |-> <<>>]

Str(t) == [null |-> FALSE, text |-> t]

\* pd.read_csv with its default na_values reads an empty field as NaN
ParseField(raw) == IF raw = <<>> THEN NaN ELSE Str(raw)

\* a column without rows, or with a string in it, has dtype object; a column
\* whose fields are all empty is read as float64, and .str raises
\* AttributeError on it
HasStrAccessor(col) == col = <<>> \/ \E j \in 1..Len(col) : ~ParseField(col[j]).null

\* .str.replace(...).str.strip() leaves a missing value missing
CleanCell(c) == IF c.null THEN NaN ELSE Str(Normalize(c.text))

\* ------------------------------------------------------------- the parser
\* the number of columns the header names
HeaderFields == Cardinality(InputColumns)

\* pd.read_csv takes the fields the first data row has beyond the header's
\* as index columns, the leading ones
LeadingCols(f) ==
    IF f # <<>> /\ Len(f[1]) > HeaderFields THEN Len(f[1]) - HeaderFields ELSE 0

\* the number of fields the parser expects of the rows after the first
ExpectedFields(f) == HeaderFields + LeadingCols(f)

\* what a row too short for a column gets there
MissingField == Field(FALSE, <<>>)

\* the field of row r under column c of the header (1: created_at, 2: text)
ColumnField(r, lead, c) == IF lead + c <= Len(r) THEN r[lead + c] ELSE MissingField

\* rows lo..hi of file f as the parser hands them over, each with its
\* position in the file
ParsedRows(f, lo, hi) ==
    [j \in 1..(hi - lo + 1) |->
        [id |-> lo + j - 1,
         created_at |-> ColumnField(f[lo + j - 1], LeadingCols(f), 1),
         text |-> ColumnField(f[lo + j - 1], LeadingCols(f), 2)]]

\* one read of the rows up to hi, starts holding the first row of this read
\* and of every read of the same reader before it (a chunk after the chunks
\* before it, or the file in one piece): the parser raises on a row with more
\* fields than the line before it has after filling ("Expected n fields in
\* line k, saw m"), except on the first row of a read, whose fields beyond
\* the columns are dropped. A short row is filled to the line before it and
\* the last line of a read stays with the reader, so the filled count is the
\* largest field count among the first rows of the reads so far
HasMalformed(f, starts, hi) ==
    LET lo == CHOOSE s \in starts : \A t \in starts : t <= s
        seen == {ExpectedFields(f)} \cup
                {Len(f[s]) : s \in starts \cap (1..Len(f))}
        filled == CHOOSE w \in seen : \A v \in seen : v <= w
    IN  \E j \in lo..hi : j > lo /\ Len(f[j]) > filled

\* ---------------------------------------------------------- chunked reader
\* pd.read_csv(filepath, chunksize=C) yields ceil(R / C) chunks, and one
\* empty chunk (with the header's columns) for a file without data rows
NumChunks(R, C) == IF R = 0 THEN 1 ELSE (R + C - 1) \div C

\* the file positions of the first and the last row of chunk i (0-based)
ChunkLo(f, C, i) == Min(i * C, Len(f)) + 1

ChunkHi(f, C, i) == Min((i + 1) * C, Len(f))

\* the first rows of the chunks 0..i, the reads of one reader
ChunkStarts(f, C, i) == {ChunkLo(f, C, k) : k \in 0..i}

\* rows of chunk i (0-based)
ChunkRows(f, C, i) == ParsedRows(f, ChunkLo(f, C, i), ChunkHi(f, C, i))

\* pd.to_datetime(chunk['created_at']) raises on a value that is not a date;
\* a missing value becomes NaT
TimestampBad(rows) ==
    \E j \in 1..Len(rows) :
        ~ParseField(rows[j].created_at.text).null /\ ~rows[j].created_at.date

\* the text column of the rows, as written in the file
TextColumn(rows) == [j \in 1..Len(rows) |-> rows[j].text.text]

\* chunk['text'].str raises when the column holds no string
TextFails(rows) == ~HasStrAccessor(TextColumn(rows))

\* the two column assignments of the loop body
TransformRows(rows) ==
    [j \in 1..Len(rows) |->
        [id |-> rows[j].id,
         clean_text |-> CleanCell(ParseField(rows[j].text.text))]]

\* pd.concat(chunks, ignore_index=True): rows of the chunks in list order
RECURSIVE Flatten(_)
Flatten(cs) == IF cs = <<>> THEN <<>> ELSE Head(cs) \o Flatten(Tail(cs))

\* pd.concat raises ValueError("No objects to concatenate") on an empty list
ConcatFails(cs) == cs = <<>>

\* the whole file as parsed rows
AllRows(f) == ParsedRows(f, 1, Len(f))

\* estimate_file_size reads the first SAMPLE_ROWS rows with pd.read_csv
EstimateFails(f) == HasMalformed(f, {1}, Min(Len(f), SAMPLE_ROWS))

\* the callback_func values a caller passes: None, a function of the
\* caller's, or progress_callback of the data processing page
Callbacks == {"none", "func", "progress"}

\* whether callback_func(n, len(chunk), total) raises: progress_callback
\* divides by total; a function of the caller's may raise on any invocation
CallbackRaises(cbk, total) ==
    IF cbk = "none" THEN {FALSE}
    ELSE IF cbk = "progress" THEN {total = 0}
    ELSE BOOLEAN

\* file_info['file_size_mb'] > 100
UseDaskAtThreshold(sz) == sz >= ThresholdBytes
UseDask(sz) == sz > ThresholdBytes


\* --------------------------------------------------------------- the state
VARIABLES
    chunk_size,        \* self.chunk_size
    client,            \* self.client: "none" or "client"
    processed_chunks,  \* self.processed_chunks
    total_rows,        \* self.total_rows
    calls,             \* calls made on this instance so far
    pc,                \* position of the current call
    entry,             \* the method the caller invoked
    file,              \* rows of the file at filepath
    size,              \* os.path.getsize(filepath)
    cbArg,             \* the callback_func the caller passed
    cb,                \* callback_func of the _process_with_chunks frame
    i,                 \* the loop index of enumerate(chunk_reader)
    chunk,             \* the chunk the loop body holds
    chunks,            \* the accumulator list
    reads,             \* chunks requested from chunk_reader in this call
    cbLog,             \* the callback invocations of this call that returned
    strategies,        \* the readers entered in this call, in order
    daskFailed,        \* _process_with_dask caught an exception in this call
    partitions,        \* rows the aborted distributed attempt had produced
    error,             \* what the call raised to the caller, or "none"
    result,            \* the table returned to the caller
    doneChunks,        \* chunks appended by the chunked reader in finished calls
    doneRows,          \* rows of those chunks
    nText,             \* a raw text value, for the normaliser on its own
    nOut,              \* its successive normalisations
    colIn,             \* the text fields of one chunk, as written in the file
    colOut,            \* the clean_text column computed for them
    aMsg,              \* the message handed to the analysis step
    aOut,              \* what the analysis step ended with
    estIn,             \* estimated_rows and self.chunk_size of one estimate
    estOut,            \* the recommended_chunk_size reported for them
    templates,         \* ResponseTemplates.templates: texts of each group
    custom_templates,  \* ResponseTemplates.custom_templates
    added,             \* the add_custom_template calls made so far
    got                \* the last get_template call and what it returned

vars == <<chunk_size, client, processed_chunks, total_rows, calls, pc, entry,
          file, size, cbArg, cb, i, chunk, chunks, reads, cbLog, strategies,
          daskFailed, partitions, error, result, doneChunks, doneRows, nText,
          nOut, colIn, colOut, aMsg, aOut, estIn, estOut, templates,
          custom_templates, added, got>>

instanceVars == <<chunk_size, client, processed_chunks, total_rows>>
callVars == <<calls, pc, entry, file, size, cbArg, cb, i, chunk, chunks, reads,
              cbLog, strategies, daskFailed, partitions, error, result>>
histVars == <<doneChunks, doneRows>>
normVars == <<nText, nOut>>
colVars == <<colIn, colOut>>
scoreVars == <<aMsg, aOut>>
estVars == <<estIn, estOut>>
tmplVars == <<templates, custom_templates, added, got>>
sideVars == <<normVars, colVars, scoreVars, estVars, tmplVars>>

\* the values the variables of each part have while that part is not used
NormRest == nText = <<>> /\ nOut = <<>>
ColRest ==
    colIn = <<>> /\ colOut = [done |-> FALSE, raised |-> FALSE, cells |-> <<>>]
ScoreRest ==
    /\ aMsg = [null |-> FALSE, text |-> <<>>]
    /\ aOut = [via |-> "none", status |-> "none", urgency |-> 0, frustration |-> 0]
EstRest ==
    /\ estIn = [rows |-> 0, size |-> CHUNK_SIZE]
    /\ estOut = [done |-> FALSE, rec |-> 0]
NoNumber == [none |-> TRUE, isFloat |-> FALSE, val |-> 0]

NoGet ==
    [called |-> FALSE, category |-> "", urgency |-> NoNumber,
     frustration |-> NoNumber,
     res |-> [src |-> "none", group |-> "", idx |-> 0, text |-> ""]]

\* _initialize_templates: the groups of default texts, three in each
DefaultTemplates ==
    [g \in {"escalation/urgent", "escalation/standard",
            "acknowledgment/frustrated", "acknowledgment/neutral",
            "instruction", "followup", "general"} |-> TEMPLATES_PER_GROUP]

NoCustom == [k \in {} |-> <<>>]

TmplRest ==
    /\ templates = DefaultTemplates
    /\ custom_templates = NoCustom
    /\ added = <<>>
    /\ got = NoGet

\* a LargeFileProcessor() as src/app.py constructs it, with no call under way
MainRest ==
    /\ chunk_size = CHUNK_SIZE
    /\ client = "none"
    /\ processed_chunks = 0
    /\ total_rows = 0
    /\ calls = 0
    /\ pc = "idle"
    /\ entry = "none"
    /\ file = <<>>
    /\ size = 0
    /\ cbArg = "none"
    /\ cb = "none"
    /\ i = 0
    /\ chunk = <<>>
    /\ chunks = <<>>
    /\ reads = 0
    /\ cbLog = <<>>
    /\ strategies = <<>>
    /\ daskFailed = FALSE
    /\ partitions = <<>>
    /\ error = "none"
    /\ result = NoTable
    /\ doneChunks = 0
    /\ doneRows = 0

\* LargeFileProcessor(chunk_size): chunk_size or config.CHUNK_SIZE
InitChunkSize(arg) == IF arg = 0 THEN CHUNK_SIZE ELSE arg

Init ==
    /\ \E arg \in 0..MaxChunkArg : chunk_size = InitChunkSize(arg)
    /\ client = "none"
    /\ processed_chunks = 0
    /\ total_rows = 0
    /\ calls = 0
    /\ pc = "idle"
    /\ entry = "none"
    /\ file = <<>>
    /\ size = 0
    /\ cbArg = "none"
    /\ cb = "none"
    /\ i = 0
    /\ chunk = <<>>
    /\ chunks = <<>>
    /\ reads = 0
    /\ cbLog = <<>>
    /\ strategies = <<>>
    /\ daskFailed = FALSE
    /\ partitions = <<>>
    /\ error = "none"
    /\ result = NoTable
    /\ doneChunks = 0
    /\ doneRows = 0
    /\ NormRest
    /\ ColRest
    /\ ScoreRest
    /\ EstRest
    /\ TmplRest

\* a call starts on an instance that is not inside another call
NewCall(m, f, sz, cbk) ==
    /\ pc = "idle"
    /\ calls < MaxCalls
    /\ calls' = calls + 1
    /\ entry' = m
    /\ file' = f
    /\ size' = sz
    /\ cbArg' = cbk
    /\ UNCHANGED <<instanceVars, i, chunk, chunks, reads, cbLog, strategies,
                   daskFailed, partitions, result, sideVars,
                   histVars>>

\* process_large_csv(filepath, callback_func): profile the file, pick a reader
ProcessLargeCsv(f, sz, cbk) ==
    /\ NewCall("process_large_csv", f, sz, cbk)
    /\ IF EstimateFails(f)
       THEN /\ pc' = "raised"
            /\ error' = "estimate"
            /\ cb' = "none"
       ELSE /\ error' = "none"
            /\ IF UseDask(sz)
               THEN pc' = "dask" /\ cb' = "none"
               ELSE pc' = "chunks" /\ cb' = cbk

\* _process_with_chunks(filepath, callback_func) called by itself
ProcessWithChunks(f, cbk) ==
    /\ NewCall("_process_with_chunks", f, 0, cbk)
    /\ pc' = "chunks"
    /\ cb' = cbk
    /\ error' = "none"

\* _process_with_dask: if not self.client: self.initialize_dask_client(),
\* which keeps a failure of Client(...) to itself
DaskInitClient ==
    /\ pc = "dask"
    /\ pc' = "dask_read"
    /\ strategies' = Append(strategies, "dask")
    /\ IF client = "none"
       THEN client' \in {"none", "client"}
       ELSE client' = client
    /\ UNCHANGED <<chunk_size, processed_chunks, total_rows, calls, entry, file,
                   size, cbArg, cb, i, chunk, chunks, reads, cbLog, daskFailed,
                   partitions, error, result, sideVars,
                   histVars>>

\* dd.read_csv, the two column assignments and df.compute() succeed
DaskCompute ==
    /\ pc = "dask_read"
    /\ ~HasMalformed(file, {1}, Len(file))
    /\ ~TimestampBad(AllRows(file))
    /\ ~TextFails(AllRows(file))
    /\ pc' = "returned"
    /\ result' = [columns |-> OutputColumns, rows |-> TransformRows(AllRows(file))]
    /\ UNCHANGED <<instanceVars, calls, entry, file, size, cbArg, cb, i, chunk,
                   chunks, reads, cbLog, strategies, daskFailed, partitions,
                   error, sideVars,
                   histVars>>

\* any of them raises (the data, or the cluster): the exception is logged and
\* _process_with_chunks(filepath) is called without a callback
DaskFail ==
    /\ pc = "dask_read"
    /\ \E n \in 0..Len(file) :
          partitions' = TransformRows(SubSeq(AllRows(file), 1, n))
    /\ daskFailed' = TRUE
    /\ cb' = "none"
    /\ pc' = "chunks"
    /\ UNCHANGED <<instanceVars, calls, entry, file, size, cbArg, i, chunk,
                   chunks, reads, cbLog, strategies, error, result, sideVars,
                   histVars>>

\* chunks = []
StaleAccumulator == IF partitions = <<>> THEN <<>> ELSE <<partitions>>
NewAccumulator == <<>>

\* chunks = [] and chunk_reader = pd.read_csv(filepath, chunksize=...); what
\* the aborted distributed attempt produced is out of reach from here on
OpenReader ==
    /\ pc = "chunks"
    /\ chunks' = NewAccumulator
    /\ strategies' = Append(strategies, "chunks")
    /\ i' = 0
    /\ partitions' = <<>>
    /\ pc' = "next"
    /\ UNCHANGED <<instanceVars, calls, entry, file, size, cbArg, cb, chunk,
                   reads, cbLog, daskFailed, error, result, sideVars,
                   histVars>>

\* except Exception: log and raise
OnChunkErrorRetry == "chunks"
OnChunkError == "raised"

\* the for statement asks the reader for chunk i
NextChunk ==
    /\ pc = "next"
    /\ i < NumChunks(Len(file), chunk_size)
    /\ reads' = reads + 1
    /\ IF HasMalformed(file, ChunkStarts(file, chunk_size, i),
                       ChunkHi(file, chunk_size, i))
       THEN /\ pc' = OnChunkError
            /\ error' = "parse"
            /\ chunk' = <<>>
       ELSE /\ pc' = "transform"
            /\ chunk' = ChunkRows(file, chunk_size, i)
            /\ error' = error
    /\ UNCHANGED <<instanceVars, calls, entry, file, size, cbArg, cb, i, chunks,
                   cbLog, strategies, daskFailed, partitions, result, sideVars,
                   histVars>>

\* the reader is exhausted: the loop ends
ReaderExhausted ==
    /\ pc = "next"
    /\ i >= NumChunks(Len(file), chunk_size)
    /\ pc' = "concat"
    /\ UNCHANGED <<instanceVars, calls, entry, file, size, cbArg, cb, i, chunk,
                   chunks, reads, cbLog, strategies, daskFailed, partitions,
                   error, result, sideVars,
                   histVars>>

\* self.total_rows += len(chunk)
RowsCountedNominal(c) == chunk_size
RowsCounted(c) == Len(c)

\* the loop body up to the counters
TransformChunk ==
    /\ pc = "transform"
    /\ IF TimestampBad(chunk) \/ TextFails(chunk)
       THEN /\ pc' = OnChunkError
            /\ error' = IF TimestampBad(chunk) THEN "timestamp" ELSE "text"
            /\ UNCHANGED <<chunks, processed_chunks, total_rows>>
       ELSE /\ chunks' = Append(chunks, TransformRows(chunk))
            /\ processed_chunks' = processed_chunks + 1
            /\ total_rows' = total_rows + RowsCounted(chunk)
            /\ pc' = "callback"
            /\ error' = error
    /\ UNCHANGED <<chunk_size, client, calls, entry, file, size, cbArg, cb, i,
                   chunk, reads, cbLog, strategies, daskFailed, partitions,
                   result, sideVars,
                   histVars>>

\* if callback_func: callback_func(i, len(chunk), self.total_rows); an
\* exception of the callback is caught by the except clause of the method
Callback ==
    /\ pc = "callback"
    /\ \E raises \in CallbackRaises(cb, total_rows) :
          IF raises
          THEN /\ pc' = OnChunkError
               /\ error' = "callback"
               /\ UNCHANGED <<cbLog, i>>
          ELSE /\ cbLog' = IF cb # "none"
                           THEN Append(cbLog, <<i, Len(chunk), total_rows>>)
                           ELSE cbLog
               /\ i' = i + 1
               /\ pc' = "next"
               /\ error' = error
    /\ UNCHANGED <<instanceVars, calls, entry, file, size, cbArg, cb, chunk,
                   chunks, reads, strategies, daskFailed, partitions,
                   result, sideVars,
                   histVars>>

\* result = pd.concat(chunks, ignore_index=True); return result
Concat ==
    /\ pc = "concat"
    /\ IF ConcatFails(chunks)
       THEN /\ pc' = OnChunkError
            /\ error' = "concat"
            /\ result' = result
       ELSE /\ pc' = "returned"
            /\ result' = [columns |-> OutputColumns, rows |-> Flatten(chunks)]
            /\ error' = error
    /\ UNCHANGED <<instanceVars, calls, entry, file, size, cbArg, cb, i, chunk,
                   chunks, reads, cbLog, strategies, daskFailed, partitions,
                   sideVars,
                   histVars>>

\* the caller has the table or the exception: the call's locals are gone
Return ==
    /\ pc \in {"returned", "raised"}
    /\ pc' = "idle"
    /\ entry' = "none"
    /\ file' = <<>>
    /\ size' = 0
    /\ cbArg' = "none"
    /\ cb' = "none"
    /\ i' = 0
    /\ chunk' = <<>>
    /\ chunks' = <<>>
    /\ reads' = 0
    /\ cbLog' = <<>>
    /\ strategies' = <<>>
    /\ daskFailed' = FALSE
    /\ partitions' = <<>>
    /\ error' = "none"
    /\ result' = NoTable
    /\ doneChunks' = doneChunks + Len(chunks)
    /\ doneRows' = doneRows + Len(Flatten(chunks))
    /\ UNCHANGED <<instanceVars, calls, sideVars>>

Next ==
    \/ pc = "idle" /\ \E f \in Files, sz \in Sizes, cbk \in Callbacks :
                          ProcessLargeCsv(f, sz, cbk)
    \/ pc = "idle" /\ \E f \in Files, cbk \in Callbacks :
                          ProcessWithChunks(f, cbk)
    \/ DaskInitClient
    \/ DaskCompute
    \/ DaskFail
    \/ OpenReader
    \/ NextChunk
    \/ ReaderExhausted
    \/ TransformChunk
    \/ Callback
    \/ Concat
    \/ Return

Spec == Init /\ [][Next]_vars


\* ------------------------------------------- the normaliser on its own
InitNorm ==
    /\ chunk_size = CHUNK_SIZE
    /\ client = "none"
    /\ processed_chunks = 0
    /\ total_rows = 0
    /\ calls = 0
    /\ pc = "idle"
    /\ entry = "none"
    /\ file = <<>>
    /\ size = 0
    /\ cbArg = "none"
    /\ cb = "none"
    /\ i = 0
    /\ chunk = <<>>
    /\ chunks = <<>>
    /\ reads = 0
    /\ cbLog = <<>>
    /\ strategies = <<>>
    /\ daskFailed = FALSE
    /\ partitions = <<>>
    /\ error = "none"
    /\ result = NoTable
    /\ doneChunks = 0
    /\ doneRows = 0
    /\ nText \in Texts
    /\ nOut = <<>>
    /\ ColRest
    /\ ScoreRest
    /\ EstRest
    /\ TmplRest

\* clean_text of a row whose text is nText
NormalizeRaw ==
    /\ nOut = <<>>
    /\ nOut' = <<Normalize(nText)>>
    /\ UNCHANGED <<instanceVars, callVars, histVars, nText, colVars, scoreVars,
                   estVars, tmplVars>>

\* the same expression applied to a text that is already a clean_text
NormalizeAgain ==
    /\ Len(nOut) = 1
    /\ nOut' = Append(nOut, Normalize(nOut[1]))
    /\ UNCHANGED <<instanceVars, callVars, histVars, nText, colVars, scoreVars,
                   estVars, tmplVars>>

NextNorm ==
    \/ NormalizeRaw
    \/ NormalizeAgain

SpecNorm == InitNorm /\ [][NextNorm]_vars


\* ------------------------------- the clean_text column of one chunk
\* text fields as they can stand in the file: empty, plain, a lone mention,
\* a lone space
ColFields == {<<>>, <<"a">>, <<"@", "a">>, <<" ">>}

Columns == UNION {[1..n -> ColFields] : n \in 0..MaxColRows}

\* chunk['clean_text'] for the chunk whose text fields are col
CleanColumn(col) ==
    IF HasStrAccessor(col)
    THEN [done |-> TRUE, raised |-> FALSE,
          cells |-> [j \in 1..Len(col) |-> CleanCell(ParseField(col[j]))]]
    ELSE [done |-> TRUE, raised |-> TRUE, cells |-> <<>>]

InitColumn ==
    /\ MainRest
    /\ NormRest
    /\ colIn \in Columns
    /\ colOut = [done |-> FALSE, raised |-> FALSE, cells |-> <<>>]
    /\ ScoreRest
    /\ EstRest
    /\ TmplRest

\* the clean_text assignment of the loop body on that chunk
CleanTextColumn ==
    /\ ~colOut.done
    /\ colOut' = CleanColumn(colIn)
    /\ UNCHANGED <<instanceVars, callVars, histVars, normVars, colIn, scoreVars,
                   estVars, tmplVars>>

NextColumn == CleanTextColumn

SpecColumn == InitColumn /\ [][NextColumn]_vars

\* ------------------------------------------ the message-analysis step
\* the attributes of a LargeFileProcessor instance: the fields __init__ sets
\* and the methods the class defines
ProcessorAttributes ==
    {"chunk_size", "client", "processed_chunks", "total_rows",
     "initialize_dask_client", "estimate_file_size", "process_large_csv",
     "_process_with_dask", "_process_with_chunks"}

\* the attributes the analysis step looks up on st.session_state.processor
AnalysisLookups ==
    <<"_clean_text", "_calculate_urgency_score", "_calculate_frustration_score">>

\* the first of them the instance lacks: getattr raises AttributeError there
MissingLookups ==
    {k \in 1..Len(AnalysisLookups) : AnalysisLookups[k] \notin ProcessorAttributes}

\* Python truth value of the message
Truthy(c) == ~c.null /\ c.text # <<>>

NoAnalysis == [via |-> "none", status |-> "none", urgency |-> 0, frustration |-> 0]

Raised(v, what) == [via |-> v, status |-> what, urgency |-> 0, frustration |-> 0]

InitScore ==
    /\ MainRest
    /\ NormRest
    /\ ColRest
    /\ aMsg \in {NaN} \cup {Str(t) : t \in Texts}
    /\ aOut = NoAnalysis
    /\ EstRest
    /\ TmplRest

\* show_message_analysis_page with the button pressed: nothing is computed for
\* an empty message; otherwise the models are loaded if there are none, then
\* processor._clean_text(message) is looked up; every exception ends in
\* st.error
AnalyzeMessage ==
    /\ aOut = NoAnalysis
    /\ ~aMsg.null
    /\ IF ~Truthy(aMsg)
       THEN aOut' = [via |-> "page", status |-> "skipped", urgency |-> 0,
                     frustration |-> 0]
       ELSE \E loadRaises \in BOOLEAN :
               aOut' = IF loadRaises THEN Raised("page", "load error")
                       ELSE IF MissingLookups # {}
                            THEN Raised("page", "AttributeError")
                            ELSE Raised("page", "no such code")
    /\ UNCHANGED <<instanceVars, callVars, histVars, normVars, colVars, aMsg,
                   estVars, tmplVars>>

\* the three calls of the analysis step made on a text directly:
\* processor._clean_text(text), then processor._calculate_urgency_score and
\* processor._calculate_frustration_score on the result
InvokeCalculators ==
    /\ aOut = NoAnalysis
    /\ aOut' = IF MissingLookups # {}
               THEN Raised("call", "AttributeError")
               ELSE Raised("call", "no such code")
    /\ UNCHANGED <<instanceVars, callVars, histVars, normVars, colVars, aMsg,
                   estVars, tmplVars>>

NextScore ==
    \/ AnalyzeMessage
    \/ InvokeCalculators

SpecScore == InitScore /\ [][NextScore]_vars

\* ------------------------------------- the recommended chunk size
\* min(self.chunk_size, max(1000, estimated_rows // 100))
RecommendedUncapped(S, E) == Max(MIN_RECOMMENDED, E \div ROWS_DIVISOR)
RecommendedChunkSize(S, E) == Min(S, Max(MIN_RECOMMENDED, E \div ROWS_DIVISOR))

\* values of self.chunk_size around 1, 1000 and the configured default
ChunkSizes ==
    {1, 2, MIN_RECOMMENDED - 1, MIN_RECOMMENDED, MIN_RECOMMENDED + 1,
     CHUNK_SIZE - 1, CHUNK_SIZE, CHUNK_SIZE + 1}

\* values of estimated_rows: the multiples of 100 around the same points,
\* and the last value before the next multiple
EstimatedRows ==
    {h * ROWS_DIVISOR + d :
        h \in {0, 1, MIN_RECOMMENDED - 1, MIN_RECOMMENDED, MIN_RECOMMENDED + 1,
               CHUNK_SIZE - 1, CHUNK_SIZE, CHUNK_SIZE + 1},
        d \in {0, ROWS_DIVISOR - 1}}

InitEstimate ==
    /\ MainRest
    /\ NormRest
    /\ ColRest
    /\ ScoreRest
    /\ \E E \in EstimatedRows, S \in ChunkSizes : estIn = [rows |-> E, size |-> S]
    /\ estOut = [done |-> FALSE, rec |-> 0]
    /\ TmplRest

\* estimate_file_size: the 'recommended_chunk_size' entry of the profile, for
\* the estimated_rows computed from the file and the sample
EstimateFileSize ==
    /\ ~estOut.done
    /\ estOut' = [done |-> TRUE,
                  rec |-> RecommendedChunkSize(estIn.size, estIn.rows)]
    /\ UNCHANGED <<instanceVars, callVars, histVars, normVars, colVars,
                   scoreVars, estIn, tmplVars>>

NextEstimate == EstimateFileSize

SpecEstimate == InitEstimate /\ [][NextEstimate]_vars

\* ------------------------------------------------ response templates
\* a Python number: an int n, or a float with the integral value n
Num(fl, v) == [none |-> FALSE, isFloat |-> fl, val |-> v]

Numbers == {Num(FALSE, 4), Num(TRUE, 4), Num(TRUE, 6)}

\* f"{x}": "4" for the int 4, "4.0" for the float 4.0
Fmt(n) == IF n.isFloat THEN ToString(n.val) \o ".0" ELSE ToString(n.val)

Categories == {"escalation", "acknowledgment", "general", "other"}

TemplateTexts == {"T1", "T2"}

\* add_custom_template: key = category, then "_<urgency_threshold>" and
\* "_<frustration_threshold>" for the thresholds that are not None
AddKey(cat, ut, ft) ==
    cat \o (IF ut.none THEN "" ELSE "_" \o Fmt(ut))
        \o (IF ft.none THEN "" ELSE "_" \o Fmt(ft))

\* get_template: custom_key = f"{category}_{urgency_score}_{frustration_score}"
CustomKey(cat, us, fs) == cat \o "_" \o Fmt(us) \o "_" \o Fmt(fs)

\* the branch of the default templates: the group looked up in
\* self.templates, or the fixed sentence for a category the table does not
\* have
DefaultGroup(cat, us, fs) ==
    IF cat = "escalation"
    THEN (IF us.val > URGENT_ABOVE THEN "escalation/urgent"
          ELSE "escalation/standard")
    ELSE IF cat = "acknowledgment"
    THEN (IF fs.val > FRUSTRATED_ABOVE THEN "acknowledgment/frustrated"
          ELSE "acknowledgment/neutral")
    ELSE IF cat \in DOMAIN templates THEN cat
    ELSE "fixed"

\* the sentence of the except clause
ExceptSentence == [src |-> "except", group |-> "", idx |-> 0, text |-> ""]

\* the JSON files load_templates is given: one that cannot be read, one
\* without either entry, one whose custom list is empty and whose default
\* table has one group of one text, and one with a custom template
NoFile == [readable |-> FALSE, hasDefault |-> FALSE, default |-> NoCustom,
           custom |-> NoCustom]

EmptyFile == [readable |-> TRUE, hasDefault |-> FALSE, default |-> NoCustom,
              custom |-> NoCustom]

TemplateFiles ==
    { NoFile,
      EmptyFile,
      [readable |-> TRUE, hasDefault |-> TRUE,
       default |-> [g \in {"general"} |-> 1],
       custom |-> [k \in {"escalation_4_4"} |-> <<>>]],
      [readable |-> TRUE, hasDefault |-> FALSE, default |-> NoCustom,
       custom |-> [k \in {"escalation_4_4"} |-> <<"T2">>]] }

InitTemplates ==
    /\ MainRest
    /\ NormRest
    /\ ColRest
    /\ ScoreRest
    /\ EstRest
    /\ TmplRest

\* add_custom_template(category, template, urgency_threshold,
\* frustration_threshold)
AddCustomTemplate(cat, tmpl, ut, ft) ==
    /\ Len(added) < MaxCustom
    /\ custom_templates' =
          [k \in DOMAIN custom_templates \cup {AddKey(cat, ut, ft)} |->
              IF k = AddKey(cat, ut, ft)
              THEN (IF k \in DOMAIN custom_templates
                    THEN Append(custom_templates[k], tmpl)
                    ELSE <<tmpl>>)
              ELSE custom_templates[k]]
    /\ added' = Append(added, [category |-> cat, template |-> tmpl,
                               ut |-> ut, ft |-> ft])
    /\ got' = NoGet
    /\ UNCHANGED <<instanceVars, callVars, histVars, normVars, colVars,
                   scoreVars, estVars, templates>>

\* load_templates(filepath): both tables are replaced by what the file
\* holds; a file that cannot be read changes nothing
LoadTemplates(tf) ==
    /\ IF tf.readable
       THEN /\ templates' = IF tf.hasDefault THEN tf.default ELSE templates
            /\ custom_templates' = tf.custom
            /\ added' = <<>>
       ELSE UNCHANGED <<templates, custom_templates, added>>
    /\ got' = NoGet
    /\ UNCHANGED <<instanceVars, callVars, histVars, normVars, colVars,
                   scoreVars, estVars>>

\* what get_template can return: a random choice from the custom list under
\* the exact key, else from the default group, else the fixed sentence; a
\* missing group or an empty list raises, and the except clause answers
TemplateChoices(cat, us, fs) ==
    IF CustomKey(cat, us, fs) \in DOMAIN custom_templates
    THEN (IF custom_templates[CustomKey(cat, us, fs)] = <<>>
          THEN {ExceptSentence}
          ELSE {[src |-> "custom", group |-> CustomKey(cat, us, fs),
                 idx |-> n,
                 text |-> custom_templates[CustomKey(cat, us, fs)][n]] :
                    n \in 1..Len(custom_templates[CustomKey(cat, us, fs)])})
    ELSE IF DefaultGroup(cat, us, fs) = "fixed"
    THEN {[src |-> "fixed", group |-> "fixed", idx |-> 0, text |-> ""]}
    ELSE IF DefaultGroup(cat, us, fs) \notin DOMAIN templates
    THEN {ExceptSentence}
    ELSE IF templates[DefaultGroup(cat, us, fs)] = 0
    THEN {ExceptSentence}
    ELSE {[src |-> "default", group |-> DefaultGroup(cat, us, fs),
           idx |-> n, text |-> ""] :
              n \in 1..templates[DefaultGroup(cat, us, fs)]}

\* get_template(category, urgency_score, frustration_score)
GetTemplate(cat, us, fs) ==
    /\ \E res \in TemplateChoices(cat, us, fs) :
          got' = [called |-> TRUE, category |-> cat, urgency |-> us,
                  frustration |-> fs, res |-> res]
    /\ UNCHANGED <<instanceVars, callVars, histVars, normVars, colVars,
                   scoreVars, estVars, templates, custom_templates, added>>

NextTemplates ==
    \/ \E cat \in Categories, tmpl \in TemplateTexts,
          ut \in Numbers \cup {NoNumber}, ft \in Numbers \cup {NoNumber} :
          AddCustomTemplate(cat, tmpl, ut, ft)
    \/ \E tf \in TemplateFiles : LoadTemplates(tf)
    \/ \E cat \in Categories, us \in Numbers, fs \in Numbers :
          GetTemplate(cat, us, fs)

SpecTemplates == InitTemplates /\ [][NextTemplates]_vars

\* ------------------------------------------------------- claim vocabulary
LastStrategy == IF strategies = <<>> THEN "none" ELSE strategies[Len(strategies)]

ChunkedRan == LastStrategy = "chunks"

StrategySet == {strategies[k] : k \in 1..Len(strategies)}

CallEnded == pc \in {"returned", "raised"}

\* the rows of the file as a table of processed rows, computed without chunks
WholeFileRows(f) ==
    [j \in 1..Len(f) |->
        [id |-> j,
         clean_text |->
            CleanCell(ParseField(ColumnField(f[j], LeadingCols(f), 2).text))]]

\* a malformed row: its number of fields is not the header's
MalformedRow(r) == Len(r) # HeaderFields

\* a row with an unparseable timestamp: the field under created_at is there
\* and is not a date
BadTimestampRow(r) ==
    /\ Len(r) = HeaderFields
    /\ r[1].text # <<>>
    /\ ~r[1].date

RowRejected(r) == MalformedRow(r) \/ BadTimestampRow(r)

\* the first chunk (0-based) of file f under chunk size C that holds a
\* malformed row or an unparseable timestamp; -1 when there is none

ChunkRejected(f, C, k) ==
    \E j \in 1..Len(f) : RowRejected(f[j]) /\ (j - 1) \div C = k

FirstRejectedChunk(f, C) ==
    IF \E j \in 1..Len(f) : RowRejected(f[j])
    THEN CHOOSE k \in 0..Len(f) :
            /\ ChunkRejected(f, C, k)
            /\ \A m \in 0..(k - 1) : ~ChunkRejected(f, C, m)
    ELSE -1

\* C1: for every file with R data rows and every chunk size the instance was
\* built with (C = 1, C dividing R or not, C = R, C > R), a chunked read
\* returns exactly the R rows of the file in input order; a read ends raised
\* only for a file with a malformed row or an unparseable timestamp, or when
\* the caller's callback raised.
C1_ChunkedRowsInInputOrder ==
    /\ (pc = "returned" /\ ChunkedRan) =>
          /\ Len(result.rows) = Len(file)
          /\ \A j \in 1..Len(file) : result.rows[j].id = j
          /\ result.rows = WholeFileRows(file)
    /\ (pc = "raised" /\ ChunkedRan /\ error # "callback") =>
          \E j \in 1..Len(file) : RowRejected(file[j])

\* C2: with a callback given to the call, every chunk the chunked reader
\* transforms and appends (as primary path or as fallback) gets exactly one
\* callback invocation, in index order 0, 1, ..., made after the append and
\* before the next chunk is requested.
C2_CallbackOncePerChunk ==
    (cbArg # "none" /\ ChunkedRan) =>
        /\ \A k \in 1..Len(cbLog) : cbLog[k][1] = k - 1
        /\ (pc = "callback" \/ error = "callback") =>
              Len(cbLog) = Len(chunks) - 1
        /\ (pc \in {"next", "transform", "concat", "returned", "raised"}
                /\ error # "callback") =>
              Len(cbLog) = Len(chunks)
        /\ pc = "transform" => reads = Len(cbLog) + 1

\* C3: within one chunked read the cumulative row count handed to the callback
\* is strictly increasing, and at the last invocation of a read that returns
\* it equals the number of rows R of the file read, also on a second or later
\* read of the same instance and after a failed read.
C3_CumulativeEndsAtR ==
    /\ \A k \in 2..Len(cbLog) : cbLog[k][3] > cbLog[k - 1][3]
    /\ (pc = "returned" /\ cbLog # <<>>) => cbLog[Len(cbLog)][3] = Len(file)

\* the table the chunked reader builds for file f with chunk size C
ChunkedTable(f, C) ==
    [columns |-> OutputColumns,
     rows |-> Flatten([k \in 1..NumChunks(Len(f), C) |->
                          TransformRows(ChunkRows(f, C, k - 1))])]

C5_NoRowsGivesEmptyTable ==
    /\ error # "concat"
    /\ (ChunkedRan /\ Len(file) = 0 /\ CallEnded /\ cb # "func") =>
          /\ pc = "returned"
          /\ result = [columns |-> OutputColumns, rows |-> <<>>]

\* C6: when chunk k is the first chunk of a chunked read with a malformed row
\* or an unparseable timestamp, the call never returns a table: it ends
\* raised with no result, exactly k + 1 chunks requested from the reader
\* (unless the caller's callback raised before), and the callback invoked
\* for chunks 0..k-1 only.
C6_RejectedChunkAborts ==
    (ChunkedRan /\ FirstRejectedChunk(file, chunk_size) >= 0) =>
        /\ pc # "returned"
        /\ pc # "concat"
        /\ result = NoTable
        /\ reads <= FirstRejectedChunk(file, chunk_size) + 1
        /\ \A k \in 1..Len(cbLog) :
              cbLog[k][1] < FirstRejectedChunk(file, chunk_size)
        /\ Len(chunks) <= FirstRejectedChunk(file, chunk_size)
        /\ (pc = "raised" /\ error # "callback") =>
              /\ error \in {"parse", "timestamp"}
              /\ reads = FirstRejectedChunk(file, chunk_size) + 1
              /\ i = FirstRejectedChunk(file, chunk_size)

\* C7: in process_large_csv the distributed reader is entered only for a file
\* of more than 100 MB; for a file of at most 100 MB (exactly 100 MB
\* included) the chunked reader is the only reader entered and its callback
\* is the caller's.
C7_DaskOnlyAboveThreshold ==
    entry = "process_large_csv" =>
        /\ (pc \in {"dask", "dask_read"} \/ "dask" \in StrategySet)
              => size > ThresholdBytes
        /\ size <= ThresholdBytes =>
              /\ strategies \in {<<>>, <<"chunks">>}
              /\ ~daskFailed
              /\ ChunkedRan => cb = cbArg

C7_Witness ==
    /\ entry = "process_large_csv"
    /\ size = ThresholdBytes
    /\ strategies = <<"chunks">>
    /\ cbArg = "progress"
    /\ cbLog # <<>>
    /\ pc = "returned"

\* C8: a call enters each reader at most once and the only change of reader
\* is distributed -> chunked; an error of the chunked reader ends the call
\* raised, with no reader entered after it; a call that went through a failed
\* distributed attempt ends raised only with the chunked reader's own error.
C8_OneFallbackOnly ==
    /\ strategies \in {<<>>, <<"chunks">>, <<"dask">>, <<"dask", "chunks">>}
    /\ error \in {"parse", "timestamp", "text", "callback", "concat"} =>
          /\ pc = "raised"
          /\ ChunkedRan
    /\ (pc = "raised" /\ strategies # <<>>) =>
          /\ ChunkedRan
          /\ error \in {"parse", "timestamp", "text", "callback", "concat"}
    /\ (daskFailed /\ pc \in {"next", "transform", "callback", "concat", "returned", "raised"})
          => strategies = <<"dask", "chunks">>

C8_Witness ==
    /\ pc = "raised"
    /\ daskFailed
    /\ strategies = <<"dask", "chunks">>
    /\ error = "timestamp"


\* an occurrence of '@' followed by a word character
HasMention(s) == \E p \in 1..(Len(s) - 1) : s[p] = "@" /\ IsWord(s[p + 1])

\* whitespace at either end
HasOuterSpace(s) == s # <<>> /\ (IsSpace(s[1]) \/ IsSpace(s[Len(s)]))

\* C9: for every raw text over the alphabet, the normalised text holds no '@'
\* followed by a word character and has no leading or trailing whitespace.
C9_NoMentionNoOuterSpace ==
    Len(nOut) >= 1 => (~HasMention(nOut[1]) /\ ~HasOuterSpace(nOut[1]))

C9_Witness ==
    /\ Len(nOut) >= 1
    /\ HasMention(nText)
    /\ HasOuterSpace(nText)
    /\ nOut[1] # <<>>
    /\ nOut[1] # nText

\* C10: normalising a normalised text changes nothing:
\* normalize(normalize(x)) = normalize(x) for every text x.
C10_NormalizeIdempotent ==
    Len(nOut) = 2 => nOut[2] = nOut[1]

C10_Witness ==
    /\ Len(nOut) = 2
    /\ HasMention(nText)
    /\ \E p \in 1..Len(nOut[1]) : nOut[1][p] = "@"
    /\ nOut[2] = nOut[1]


\* the counters against the chunks the chunked reader has appended since the
\* instance was constructed: those of finished calls and those of the call
\* under way
CountersMatchHistory ==
    /\ processed_chunks = doneChunks + Len(chunks)
    /\ total_rows = doneRows + Len(Flatten(chunks))

CountersStep ==
    /\ processed_chunks' >= processed_chunks
    /\ total_rows' >= total_rows
    /\ (processed_chunks' # processed_chunks \/ total_rows' # total_rows) =>
          /\ pc = "transform"
          /\ ChunkedRan
          /\ processed_chunks' = processed_chunks + 1

\* C15: processed_chunks and total_rows never decrease and change only in the
\* chunked reader's loop; at every moment, over all calls since construction
\* (returned, failed part-way, or routed through the distributed reader),
\* processed_chunks is the number of chunks the chunked reader has transformed
\* and appended and total_rows is the sum of their row counts.
C15_CountersMonotoneAndExact ==
    /\ []CountersMatchHistory
    /\ [][CountersStep]_vars

C15_Witness ==
    /\ pc = "raised"
    /\ calls = 2
    /\ daskFailed
    /\ error = "timestamp"
    /\ Len(chunks) >= 1
    /\ doneChunks >= 1
    /\ doneRows >= 1
    /\ total_rows > doneRows


\* C11: for a row whose text field is empty or missing, the clean_text
\* assignment does not raise and the row's clean_text is the empty string,
\* not a missing value.
C11_MissingTextGivesEmptyString ==
    colOut.done =>
        /\ ~colOut.raised
        /\ \A j \in 1..Len(colIn) :
              colIn[j] = <<>> => colOut.cells[j] = Str(<<>>)


\* C12: for empty or null text, the urgency and the frustration calculators,
\* invoked on the processor the way the message-analysis step invokes them,
\* each return 0 and do not raise.
C12_EmptyTextScoresZero ==
    (aOut.via = "call" /\ ~Truthy(aMsg)) =>
        /\ aOut.status = "scored"
        /\ aOut.urgency = 0
        /\ aOut.frustration = 0


\* C13: for estimated row count E >= 0 and chunk size S >= 1 the recommended
\* chunk size is min(S, max(1000, E div 100)): S when S <= 1000; otherwise
\* 1000 while E < 100000, S once E >= 100 * S, and E div 100 in between.  It
\* never exceeds S and is at least 1000 whenever S >= 1000.
C13_RecommendedChunkSize ==
    estOut.done =>
        /\ estOut.rec <= estIn.size
        /\ estIn.size >= 1000 => estOut.rec >= 1000
        /\ estIn.size <= 1000 => estOut.rec = estIn.size
        /\ (estIn.size > 1000 /\ estIn.rows < 100000) => estOut.rec = 1000
        /\ (estIn.size > 1000 /\ estIn.rows >= 100 * estIn.size) =>
              estOut.rec = estIn.size
        /\ (estIn.size > 1000 /\ estIn.rows >= 100000
                /\ estIn.rows < 100 * estIn.size) =>
              /\ 100 * estOut.rec <= estIn.rows
              /\ estIn.rows < 100 * (estOut.rec + 1)

C13_Witness ==
    /\ estOut.done
    /\ estIn.size = CHUNK_SIZE
    /\ estOut.rec > 1000
    /\ estOut.rec < estIn.size
    /\ estIn.rows > 100 * estOut.rec


\* a score meets a threshold: no threshold, or score >= threshold
Meets(t, sc) == t.none \/ sc.val >= t.val

\* the custom templates added for the category of the last get_template call
\* whose thresholds its scores meet
Applicable ==
    {k \in 1..Len(added) :
        /\ added[k].category = got.category
        /\ Meets(added[k].ut, got.urgency)
        /\ Meets(added[k].ft, got.frustration)}

\* C14: when a custom template was added for a category, get_template for
\* that category with an urgency score of at least its urgency threshold and
\* a frustration score of at least its frustration threshold (an omitted
\* threshold sets no minimum) returns that custom template, not a default one.
C14_CustomTemplateAtOrAboveThresholds ==
    (got.called /\ Applicable # {}) =>
        /\ got.res.src = "custom"
        /\ \E k \in Applicable : got.res.text = added[k].template

====
